---- MODULE Spec2Model ----
(***************************************************************************)
(* Credential and session management of the RepoChief CLI:                 *)
(*   - the credential vault (src/utils/workspace.js, with the two older    *)
(*     writers of the same files, utils/device.js and utils/context.js),   *)
(*   - the OAuth device flow poller (src/utils/oauth.js) on top of the     *)
(*     HTTP client's transport retry,                                      *)
(*   - the authenticated API client (utils/api-client.js).                 *)
(* Each subsystem has its own specification over its own variables; the    *)
(* variables of the other subsystems stay unchanged.                       *)
(***************************************************************************)
EXTENDS Integers, Sequences, FiniteSets, TLC

VARIABLES
  \* ---- credential vault ----
  keychain,      \* OS keychain, service 'repochief': id -> secret or NoSecret
  devKeychain,   \* OS keychain, service 'repochief-cli' (utils/device.js)
  tokensFile,    \* ~/.repochief/.tokens : id -> stored value or NoBlob
  tokenFile,     \* ~/.repochief/.token  : one plaintext record or NoBlob
  lastOp,        \* the vault operation that ran last, with what it returned
  \* ---- device authorization flow (times in seconds) ----
  clock,         \* Date.now(), counted from the call of pollForToken
  flow,          \* REQUESTING_CODE, AWAITING_AUTHORIZATION or a final state
  flowError,     \* message of the error pollForToken rejected with, or ""
  pollInterval,  \* const pollInterval of pollForToken
  expiresAt,     \* const expiresAt of pollForToken
  timers,        \* firing times of the pending setTimeout(poll, ...) timers
  inflight,      \* POST /auth/token requests sent and not yet answered
  retryCount,    \* _retryCount of the request config of the current post
  retryAt,       \* firing time of the transport's backoff timer, or NoTimer
  lastIssueAt,   \* when the last POST /auth/token was sent, or NoTimer
  lastDelay,     \* delay of the poll timer scheduled last
  slowDownSeen,  \* a slow_down answer was received in this flow
  lastAnswer,    \* the answer poll handled last, NoAnswer once poll runs again
  armedAt,       \* when the poll timer scheduled last was armed
  requests,      \* POST /auth/token requests sent by this flow
  pendings,      \* authorization_pending answers received
  onlyPending,   \* every answer so far was authorization_pending
  resolved,      \* the payload pollForToken resolved with, or NoBody
  \* ---- authenticated API client (times in minutes) ----
  cnow,          \* Date.now()
  identity,      \* workspaceId of ~/.repochief/workspace.json, or NoId
  ctorToken,     \* this.token: the token given to the constructor, or ""
  accessToken,   \* this.accessToken, or ""
  accessExpiry,  \* this.accessTokenExpiry, 0 while undefined
  req,           \* the logical requests of this client, one record each
  issued,        \* access tokens the server has issued so far
  \* ---- heartbeat manager (times in units of 30 s) ----
  hnow,          \* Date.now()
  hbPhase,       \* idle, starting (start awaits the first heartbeat),
                 \* running (start returned true), startFailed
  hbTimer,       \* this.timer: next firing time of the interval, or NoTimer
  hbRetryTimers, \* pending retry timers, as <<firing time, retryCount>>
  hbInflight,    \* heartbeat requests sent and not yet answered
  hbRetryCount,  \* this.retryCount
  hbEvents,      \* the events emitted so far
  hbDisconnects, \* how many times 'disconnected' was emitted
  hbLastDelay,   \* delay of the retry timer scheduled last
  hbStopCalled,         \* a call of stop() by the owner has returned
  hbSentAfterStop,      \* a heartbeat was sent after that
  hbSentAfterDisconnect, \* a heartbeat was sent after 'disconnected'
  \* ---- identity files ----
  workspaceFile, \* ~/.repochief/workspace.json
  deviceFile,    \* ~/.repochief/device.json
  idNext,        \* number of identifiers generated so far (uuid, randomBytes)
  idLast,        \* the identity operation that ran last
  idPrev,        \* the one before it
  \* ---- a server that rotates refresh tokens ----
  srvRt,         \* the refresh token the server issued last
  srvSeq,        \* how many it has issued since the login
  exch,          \* per caller, the refresh it is in the middle of
  exchStale,     \* an exchange was sent with a token already rotated out
  \* ---- the auth commands ----
  lastCmd        \* the login or logout that ran last, and what it found

vaultVars == <<keychain, devKeychain, tokensFile, tokenFile, lastOp>>

flowTrace ==
  <<lastAnswer, armedAt, requests, pendings, onlyPending, resolved>>

flowVars ==
  <<clock, flow, flowError, pollInterval, expiresAt, timers, inflight,
    retryCount, retryAt, lastIssueAt, lastDelay, slowDownSeen, flowTrace>>

clientVars ==
  <<cnow, identity, ctorToken, accessToken, accessExpiry, req, issued>>

hbVars ==
  <<hnow, hbPhase, hbTimer, hbRetryTimers, hbInflight, hbRetryCount, hbEvents,
    hbDisconnects, hbLastDelay, hbStopCalled, hbSentAfterStop,
    hbSentAfterDisconnect>>

idVars == <<workspaceFile, deviceFile, idNext, idLast, idPrev>>

rotVars == <<srvRt, srvSeq, exch, exchStale>>

cmdVars == <<lastCmd>>

localVars == <<hbVars, idVars, rotVars, cmdVars>>

vars == <<vaultVars, flowVars, clientVars, localVars>>

(***************************************************************************)
(* Values.  A secret is a non-empty string, written as a sequence of       *)
(* lexical chunks so that startsWith('sbp_') and includes('.') are         *)
(* computed, not assumed.  The empty sequence is "no secret" (null).       *)
(***************************************************************************)
Ids == {"ws_1", "ws_2"}

Secrets == { <<"sbp_", "k1">>, <<"opaque">> }

DeviceIds == {"dev_1"}

NoSecret == <<>>

ThisHost == "hostA"

OtherHost == "hostB"

SALT_LENGTH == 64

TAG_LENGTH == 16

IV_LENGTH == 16

\* Bytes of a secret once encoded: each chunk counts for eight bytes.
ChunkBytes == 8

ByteLen(s) == ChunkBytes * Len(s)

NoBlob == [kind |-> "absent"]

(* getEncryptionKey: PBKDF2 over hostname-platform-arch-homedir and a     *)
(* fixed salt; the key is a function of the host alone.                    *)
getEncryptionKey(host) == <<"pbkdf2", host, "repochief-cli-token-encryption">>

(* The legacy writer of utils/context.js: base64 of the token, no key.     *)
obfuscateToken(token) ==
  [kind |-> "b64", key |-> <<>>, pt |-> token, len |-> ByteLen(token),
   text |-> token]

(* A store that seals nothing: the fallback writing the legacy form.       *)
encryptToken_Obfuscated(token) == obfuscateToken(token)

(* encryptToken: base64(salt | iv | tag | AES-256-GCM(key, token)).  The   *)
(* stored value keeps the key it was sealed under and what its bytes look  *)
(* like when they are read as text (binary, no '.').                       *)
encryptToken(token) ==
  [kind |-> "aead", key |-> getEncryptionKey(ThisHost), pt |-> token,
   len |-> SALT_LENGTH + IV_LENGTH + TAG_LENGTH + ByteLen(token),
   text |-> <<"bin">>]

(* Values the file can hold that no writer of this program produced:       *)
(* truncated or damaged entries and entries sealed on another host.  Read  *)
(* as text, their bytes may or may not hold a '.'.                         *)
JunkTexts == { <<"bin">>, <<"bin", ".">> }

ForeignBlobs ==
  { [kind |-> "raw", key |-> <<>>, pt |-> NoSecret, len |-> ChunkBytes,
     text |-> t] : t \in JunkTexts }
  \cup
  { [kind |-> "aead", key |-> getEncryptionKey(OtherHost), pt |-> s,
     len |-> SALT_LENGTH + IV_LENGTH + TAG_LENGTH + ByteLen(s), text |-> t] :
      s \in {<<"opaque">>}, t \in JunkTexts }

(* decryptToken: the header-length check, then AES-GCM under this host's   *)
(* key; the auth tag verifies only for a value sealed under the same key.  *)
decryptToken(blob) ==
  IF blob.len < SALT_LENGTH + IV_LENGTH + TAG_LENGTH
    THEN [ok |-> FALSE, val |-> NoSecret, err |-> "Invalid encrypted data"]
  ELSE IF blob.kind = "aead" /\ blob.key = getEncryptionKey(ThisHost)
    THEN [ok |-> TRUE, val |-> blob.pt, err |-> ""]
  ELSE [ok |-> FALSE, val |-> NoSecret, err |-> "auth tag mismatch"]

(* The legacy test of getTokenFallback on the base64-decoded text.         *)
startsWithSbp(s) == Len(s) > 0 /\ s[1] = "sbp_"

includesDot(s) == \E i \in 1..Len(s) : s[i] = "."

LegacyShape(decoded) ==
  decoded # <<>> /\ (startsWithSbp(decoded) \/ includesDot(decoded))

(* storeTokenFallback (workspace.js): read-modify-write of the map with    *)
(* the entry of id replaced by the encrypted token.                        *)
storeTokenFallback(file, id, token) ==
  [file EXCEPT ![id] = encryptToken(token)]

(* getTokenFallback: decrypt; on failure try the legacy base64 form and    *)
(* migrate it; the inner re-throw is caught by the outer try, so every     *)
(* other failure returns null.  The function never throws.                 *)
getTokenFallback(file, id) ==
  IF file[id] = NoBlob
    THEN [ret |-> NoSecret, file |-> file, path |-> "absent", threw |-> FALSE]
  ELSE LET d == decryptToken(file[id])
           decoded == file[id].text
       IN IF d.ok
            THEN [ret |-> d.val, file |-> file, path |-> "decrypted",
                  threw |-> FALSE]
          ELSE IF LegacyShape(decoded)
            THEN [ret |-> decoded,
                  file |-> storeTokenFallback(file, id, decoded),
                  path |-> "legacy", threw |-> FALSE]
          ELSE [ret |-> NoSecret, file |-> file, path |-> "swallowed",
                threw |-> FALSE]

(* removeTokenFallback: delete the entry (the file is unlinked when the    *)
(* map becomes empty: every entry absent).                                 *)
removeTokenFallback(file, id) == [file EXCEPT ![id] = NoBlob]

(* getToken: the keychain first when keytar works and holds a truthy       *)
(* value, the file otherwise.                                              *)
getToken(kc, file, id, nativeOk) ==
  IF nativeOk /\ kc[id] # NoSecret
    THEN [ret |-> kc[id], file |-> file, path |-> "keychain", threw |-> FALSE]
    ELSE getTokenFallback(file, id)

(* storeToken: keychain and return, or the encrypted file when keytar is   *)
(* missing or throws.  Nothing is removed from the other backend.          *)
storeToken(kc, file, id, token, nativeOk) ==
  IF nativeOk
    THEN [kc |-> [kc EXCEPT ![id] = token], file |-> file]
    ELSE [kc |-> kc, file |-> storeTokenFallback(file, id, token)]

(* removeToken: deletePassword when keytar works, then the file entry.     *)
removeToken(kc, file, id, nativeOk) ==
  [kc |-> IF nativeOk THEN [kc EXCEPT ![id] = NoSecret] ELSE kc,
   file |-> removeTokenFallback(file, id)]

NoOp ==
  [op |-> "none", id |-> "", secret |-> NoSecret, native |-> FALSE,
   result |-> NoSecret, path |-> "", threw |-> FALSE, expect |-> NoSecret,
   found |-> NoBlob]

(* What a retrieve that follows lastOp is expected to return: the secret   *)
(* of a store of the same id that ran just before under the same state of  *)
(* the native backend.                                                     *)
ExpectAfter(op, id, nativeOk) ==
  IF op.op = "store" /\ op.id = id /\ op.native = nativeOk
    THEN op.secret ELSE NoSecret

InitVault ==
  /\ keychain = [i \in Ids |-> NoSecret]
  /\ devKeychain = [i \in DeviceIds |-> NoSecret]
  /\ tokensFile = [i \in Ids |-> NoBlob]
  /\ tokenFile = NoBlob
  /\ lastOp = NoOp

Store(id, s, nativeOk) ==
  LET r == storeToken(keychain, tokensFile, id, s, nativeOk)
  IN /\ keychain' = r.kc
     /\ tokensFile' = r.file
     /\ lastOp' = [NoOp EXCEPT !.op = "store", !.id = id, !.secret = s,
                                !.native = nativeOk]
     /\ UNCHANGED <<devKeychain, tokenFile, flowVars, clientVars, localVars>>

Retrieve(id, nativeOk) ==
  LET r == getToken(keychain, tokensFile, id, nativeOk)
  IN /\ tokensFile' = r.file
     /\ lastOp' = [NoOp EXCEPT !.op = "retrieve", !.id = id,
                                !.native = nativeOk, !.result = r.ret,
                                !.path = r.path, !.threw = r.threw,
                                !.expect = ExpectAfter(lastOp, id, nativeOk),
                                !.found = tokensFile[id]]
     /\ UNCHANGED <<keychain, devKeychain, tokenFile, flowVars, clientVars, localVars>>

Remove(id, nativeOk) ==
  LET r == removeToken(keychain, tokensFile, id, nativeOk)
  IN /\ keychain' = r.kc
     /\ tokensFile' = r.file
     /\ lastOp' = [NoOp EXCEPT !.op = "remove", !.id = id,
                                !.native = nativeOk]
     /\ UNCHANGED <<devKeychain, tokenFile, flowVars, clientVars, localVars>>

(* setToken of utils/device.js: keychain service 'repochief-cli', or the   *)
(* single-record file .token holding {deviceId, token} as JSON text.       *)
DeviceSetToken(id, s, nativeOk) ==
  /\ IF nativeOk
       THEN /\ devKeychain' = [devKeychain EXCEPT ![id] = s]
            /\ UNCHANGED tokenFile
       ELSE /\ tokenFile' = [kind |-> "plain", deviceId |-> id, token |-> s]
            /\ UNCHANGED devKeychain
  /\ lastOp' = [NoOp EXCEPT !.op = "deviceStore", !.id = id, !.secret = s,
                             !.native = nativeOk]
  /\ UNCHANGED <<keychain, tokensFile, flowVars, clientVars, localVars>>

(* storeToken of utils/context.js: the same keychain service and the same  *)
(* .tokens file as workspace.js, the file entry being base64 of the token. *)
ContextStoreToken(id, s, nativeOk) ==
  /\ IF nativeOk
       THEN /\ keychain' = [keychain EXCEPT ![id] = s]
            /\ UNCHANGED tokensFile
       ELSE /\ tokensFile' = [tokensFile EXCEPT ![id] = obfuscateToken(s)]
            /\ UNCHANGED keychain
  /\ lastOp' = [NoOp EXCEPT !.op = "contextStore", !.id = id, !.secret = s,
                             !.native = nativeOk]
  /\ UNCHANGED <<devKeychain, tokenFile, flowVars, clientVars, localVars>>

(* The secrets file as getTokenFallback finds it after something other     *)
(* than this program wrote it: a truncated entry, or the file of another   *)
(* host.                                                                   *)
ExternalWrite(id, blob) ==
  /\ tokensFile[id] # blob
  /\ tokensFile' = [tokensFile EXCEPT ![id] = blob]
  /\ lastOp' = [NoOp EXCEPT !.op = "external", !.id = id]
  /\ UNCHANGED <<keychain, devKeychain, tokenFile, flowVars, clientVars, localVars>>

NextVault ==
  \/ \E id \in Ids, s \in Secrets, n \in BOOLEAN : Store(id, s, n)
  \/ \E id \in Ids, n \in BOOLEAN : Retrieve(id, n)
  \/ \E id \in Ids, n \in BOOLEAN : Remove(id, n)
  \/ \E id \in DeviceIds, s \in Secrets, n \in BOOLEAN :
        DeviceSetToken(id, s, n)
  \/ \E id \in Ids, s \in Secrets, n \in BOOLEAN :
        ContextStoreToken(id, s, n)
  \/ \E id \in Ids, b \in ForeignBlobs : ExternalWrite(id, b)

(***************************************************************************)
(* The device authorization flow: requestDeviceCode and pollForToken of    *)
(* utils/oauth.js.  client.post goes through the response interceptor of   *)
(* the APIClient, which re-sends a request that failed without a response  *)
(* or with a 5xx after a backoff of its own.                               *)
(***************************************************************************)
MaxTime == 24

NoTimer == 0 - 1

\* response.interval || 5
DefaultInterval == 5

\* Math.min(pollInterval * 2, 30000) ms
BackoffCap == 30

\* options.maxRetries || 3
maxRetries == 3

\* options.retryDelay || 1000 ms
retryDelay == 1

\* interval and expires_in of the device-code answers (0: no interval given)
ServerIntervals == {0, 1, 2, 16}

ServerExpiresIn == {1, 4, 20}

\* Answers of the token endpoint: the success, a 400 with an error code, an
\* error code under another 4xx status, a 5xx, no answer at all.
TokenAnswers ==
  { [status |-> 200, error |-> ""],
    [status |-> 400, error |-> "authorization_pending"],
    [status |-> 400, error |-> "slow_down"],
    [status |-> 400, error |-> "access_denied"],
    [status |-> 400, error |-> "expired_token"],
    [status |-> 400, error |-> "invalid_grant"],
    [status |-> 403, error |-> "access_denied"],
    [status |-> 401, error |-> "invalid_client"],
    [status |-> 503, error |-> ""],
    [status |-> 0, error |-> ""] }

\* Bodies of the success answer of POST /auth/token; token_type "" stands
\* for a body without that field.
TokenResponses ==
  { [access_token |-> <<"A", 1>>, refresh_token |-> <<"sbp_", "k1">>,
     token_type |-> "", expires_in |-> 12, user |-> "u1"],
    [access_token |-> <<"A", 2>>, refresh_token |-> <<"opaque">>,
     token_type |-> "DPoP", expires_in |-> 4, user |-> "u2"] }

NoBody ==
  [access_token |-> <<>>, refresh_token |-> <<>>, token_type |-> "",
   expires_in |-> 0, user |-> ""]

NoAnswer == [status |-> 0 - 1, error |-> "", body |-> NoBody]

(* The object poll resolves with, built from the response body.            *)
TokenPayload_NoRefreshToken(response) ==
  [response EXCEPT !.refresh_token = <<>>,
     !.token_type = IF response.token_type = "" THEN "Bearer"
                    ELSE response.token_type]

TokenPayload(response) ==
  [access_token |-> response.access_token,
   refresh_token |-> response.refresh_token,
   token_type |-> IF response.token_type = "" THEN "Bearer"
                  ELSE response.token_type,
   expires_in |-> response.expires_in,
   user |-> response.user]

Pow2(n) == IF n <= 0 THEN 1 ELSE IF n = 1 THEN 2 ELSE IF n = 2 THEN 4 ELSE 8

Min(a, b) == IF a < b THEN a ELSE b

(* shouldRetry of the response interceptor: no response, or a 5xx.         *)
shouldRetry(ans) == ans.status = 0 \/ (ans.status >= 500 /\ ans.status < 600)

(* The transport's backoff before the k-th re-send.                        *)
transportDelay_Linear(k) == retryDelay * k

transportDelay(k) == retryDelay * Pow2(k - 1)

(* The timers pending once poll has sent its request: poll schedules       *)
(* nothing before the answer is in.                                        *)
TimersAfterIssue_Rearmed(ts, now, iv) == ts \cup {now + iv}

TimersAfterIssue(ts, now, iv) == ts

(* setTimeout is one-shot: the timer that fired is gone.                   *)
TimersAfterFire_Repeating(ts, t) == ts

TimersAfterFire(ts, t) == ts \ {t}

(* The delay poll passes to setTimeout after an answer that keeps the flow *)
(* going; pollInterval is a const and is never reassigned.                 *)
NextPollDelay_Uncapped(ans, iv) ==
  IF ans.status = 400 /\ ans.error = "authorization_pending" THEN iv
  ELSE iv * 2

NextPollDelay(ans, iv) ==
  IF ans.status = 400 /\ ans.error = "authorization_pending" THEN iv
  ELSE IF ans.status = 400 /\ ans.error = "slow_down" THEN iv * 2
  ELSE Min(iv * 2, BackoffCap)

InitFlow ==
  /\ clock = 0
  /\ flow = "REQUESTING_CODE"
  /\ flowError = ""
  /\ pollInterval = 0
  /\ expiresAt = 0
  /\ timers = {}
  /\ inflight = 0
  /\ retryCount = 0
  /\ retryAt = NoTimer
  /\ lastIssueAt = NoTimer
  /\ lastDelay = 0
  /\ slowDownSeen = FALSE
  /\ lastAnswer = NoAnswer
  /\ armedAt = 0
  /\ requests = 0
  /\ pendings = 0
  /\ onlyPending = TRUE
  /\ resolved = NoBody

(* requestDeviceCode answered, then pollForToken called: the constants are *)
(* computed and the first poll is scheduled one interval ahead.            *)
StartPolling(interval, expires_in) ==
  /\ flow = "REQUESTING_CODE"
  /\ LET iv == IF interval = 0 THEN DefaultInterval ELSE interval
     IN /\ pollInterval' = iv
        /\ expiresAt' = clock + expires_in
        /\ timers' = {clock + iv}
        /\ lastDelay' = iv
  /\ armedAt' = clock
  /\ flow' = "AWAITING_AUTHORIZATION"
  /\ UNCHANGED <<clock, flowError, inflight, retryCount, retryAt,
                 lastIssueAt, slowDownSeen, lastAnswer, requests, pendings,
                 onlyPending, resolved, vaultVars, clientVars, localVars>>

(* requestDeviceCode fails: 'Failed to initiate device flow'.              *)
RequestCodeFails ==
  /\ flow = "REQUESTING_CODE"
  /\ flow' = "ERROR"
  /\ flowError' = "Failed to initiate device flow"
  /\ UNCHANGED <<clock, pollInterval, expiresAt, timers, inflight,
                 retryCount, retryAt, lastIssueAt, lastDelay, slowDownSeen,
                 flowTrace, vaultVars, clientVars, localVars>>

(* reject(...) of the promise: the first settlement wins.                  *)
Settle(state, msg) ==
  IF flow = "AWAITING_AUTHORIZATION"
    THEN flow' = state /\ flowError' = msg
    ELSE UNCHANGED <<flow, flowError>>

(* A poll timer fires: the expiry check, then the token request.           *)
Poll(t) ==
  /\ t \in timers
  /\ t <= clock
  /\ IF clock > expiresAt
       THEN /\ Settle("EXPIRED", "Device code expired. Please try again.")
            /\ timers' = TimersAfterFire(timers, t)
            /\ UNCHANGED <<inflight, retryCount, lastIssueAt, requests>>
       ELSE /\ inflight' = inflight + 1
            /\ retryCount' = 0
            /\ lastIssueAt' = clock
            /\ requests' = requests + 1
            /\ timers' = TimersAfterIssue(TimersAfterFire(timers, t), clock,
                                          pollInterval)
            /\ UNCHANGED <<flow, flowError>>
  /\ lastAnswer' = NoAnswer
  /\ UNCHANGED <<clock, pollInterval, expiresAt, retryAt, lastDelay,
                 slowDownSeen, armedAt, pendings, onlyPending, resolved,
                 vaultVars, clientVars, localVars>>

(* The answer to the request in flight, through the response interceptor   *)
(* and then the try/catch of poll.                                         *)
Answer(ans) ==
  /\ inflight > 0
  /\ inflight' = inflight - 1
  /\ pendings' = IF ans.status = 400 /\ ans.error = "authorization_pending"
                   THEN pendings + 1 ELSE pendings
  /\ onlyPending' =
       (onlyPending /\ (ans.status = 200
                          \/ (ans.status = 400
                               /\ ans.error = "authorization_pending")))
  /\ IF ans.status = 200
       THEN /\ Settle("AUTHORIZED", "")
            /\ \E body \in TokenResponses :
                 /\ lastAnswer' = [status |-> 200, error |-> "", body |-> body]
                 /\ resolved' = IF flow = "AWAITING_AUTHORIZATION"
                                  THEN TokenPayload(body) ELSE resolved
            /\ UNCHANGED <<timers, retryCount, retryAt, lastDelay,
                           slowDownSeen, armedAt>>
     ELSE IF shouldRetry(ans) /\ retryCount < maxRetries
       THEN /\ retryCount' = retryCount + 1
            /\ retryAt' = clock + transportDelay(retryCount + 1)
            /\ UNCHANGED <<flow, flowError, timers, lastDelay, slowDownSeen,
                           lastAnswer, armedAt, resolved>>
     ELSE /\ lastAnswer' = [status |-> ans.status, error |-> ans.error,
                            body |-> NoBody]
          /\ UNCHANGED resolved
          /\ IF ans.status = 400 /\ ans.error = "access_denied"
               THEN /\ Settle("DENIED", "Access denied by user")
                    /\ UNCHANGED <<timers, retryCount, retryAt, lastDelay,
                                   slowDownSeen, armedAt>>
             ELSE IF ans.status = 400 /\ ans.error = "expired_token"
               THEN /\ Settle("EXPIRED", "Device code expired")
                    /\ UNCHANGED <<timers, retryCount, retryAt, lastDelay,
                                   slowDownSeen, armedAt>>
             ELSE IF ans.status = 400
                       /\ ans.error \notin {"authorization_pending",
                                             "slow_down"}
               THEN /\ Settle("ERROR", "Authorization failed: " \o ans.error)
                    /\ UNCHANGED <<timers, retryCount, retryAt, lastDelay,
                                   slowDownSeen, armedAt>>
             ELSE /\ timers' =
                       timers \cup {clock + NextPollDelay(ans, pollInterval)}
                  /\ lastDelay' = NextPollDelay(ans, pollInterval)
                  /\ armedAt' = clock
                  /\ slowDownSeen' =
                       (slowDownSeen
                          \/ (ans.status = 400 /\ ans.error = "slow_down"))
                  /\ UNCHANGED <<flow, flowError, retryCount, retryAt>>
  /\ UNCHANGED <<clock, pollInterval, expiresAt, lastIssueAt, requests,
                 vaultVars, clientVars, localVars>>

(* The transport's backoff timer fires: the same request is sent again.    *)
TransportResend ==
  /\ retryAt # NoTimer
  /\ retryAt <= clock
  /\ retryAt' = NoTimer
  /\ inflight' = inflight + 1
  /\ lastIssueAt' = clock
  /\ requests' = requests + 1
  /\ UNCHANGED <<clock, flow, flowError, pollInterval, expiresAt, timers,
                 retryCount, lastDelay, slowDownSeen, lastAnswer, armedAt,
                 pendings, onlyPending, resolved, vaultVars, clientVars, localVars>>

(* One second passes; a timer that is due fires first.                     *)
Tick ==
  /\ clock < MaxTime
  /\ flow = "AWAITING_AUTHORIZATION"
  /\ \A t \in timers : t > clock
  /\ retryAt = NoTimer \/ retryAt > clock
  /\ clock' = clock + 1
  /\ UNCHANGED <<flow, flowError, pollInterval, expiresAt, timers, inflight,
                 retryCount, retryAt, lastIssueAt, lastDelay, slowDownSeen,
                 flowTrace, vaultVars, clientVars, localVars>>

NextFlow ==
  \/ \E i \in ServerIntervals, e \in ServerExpiresIn : StartPolling(i, e)
  \/ RequestCodeFails
  \/ \E t \in timers : Poll(t)
  \/ \E a \in TokenAnswers : Answer(a)
  \/ TransportResend
  \/ Tick

(* The three operations of workspace.js alone.                             *)
NextVaultCore ==
  \/ \E id \in Ids, s \in Secrets, n \in BOOLEAN : Store(id, s, n)
  \/ \E id \in Ids, n \in BOOLEAN : Retrieve(id, n)
  \/ \E id \in Ids, n \in BOOLEAN : Remove(id, n)

(***************************************************************************)
(* The workspace heartbeat: class HeartbeatManager of utils/api.js.  One   *)
(* unit of time is 30 s, the default interval; the retry interval is 60 s. *)
(***************************************************************************)
MaxHbTime == 8
MaxHbInflight == 2
hbInterval == 1
hbRetryInterval == 2
hbMaxRetries == 3

(* What a heartbeat request can come back with: a body with success set,   *)
(* a body without it, or a rejection of client.post.                       *)
HbOutcomes == {"success", "noSuccess", "fail"}

InitHeartbeat ==
  /\ hnow = 0
  /\ hbPhase = "idle"
  /\ hbTimer = NoTimer
  /\ hbRetryTimers = {}
  /\ hbInflight = 0
  /\ hbRetryCount = 0
  /\ hbEvents = {}
  /\ hbDisconnects = 0
  /\ hbLastDelay = 0
  /\ hbStopCalled = FALSE
  /\ hbSentAfterStop = FALSE
  /\ hbSentAfterDisconnect = FALSE

(* The delay of the retry timer after the count-th consecutive failure.    *)
hbRetryDelay(count) == hbRetryInterval * count

(* The first half of sendHeartbeat: client.post leaves.                    *)
HbSend ==
  /\ hbInflight' = hbInflight + 1
  /\ hbSentAfterStop' = (hbSentAfterStop \/ hbStopCalled)
  /\ hbSentAfterDisconnect' =
       (hbSentAfterDisconnect \/ "disconnected" \in hbEvents)

(* stop(): the interval is cleared when there is one; nothing else is.     *)
HbStopped(events) ==
  /\ hbTimer' = NoTimer
  /\ hbEvents' = IF hbTimer # NoTimer THEN events \cup {"stopped"} ELSE events

(* start(): without a workspace or a token it emits 'error' and returns    *)
(* false; otherwise it sends the initial heartbeat and awaits it.          *)
HbStart(hasWorkspace, hasToken) ==
  /\ hbPhase = "idle"
  /\ IF hasWorkspace /\ hasToken
       THEN /\ hbPhase' = "starting"
            /\ HbSend
            /\ UNCHANGED hbEvents
       ELSE /\ hbPhase' = "startFailed"
            /\ hbEvents' = hbEvents \cup {"error"}
            /\ UNCHANGED <<hbInflight, hbSentAfterStop, hbSentAfterDisconnect>>
  /\ UNCHANGED <<hnow, hbTimer, hbRetryTimers, hbRetryCount, hbDisconnects, hbLastDelay,
                 hbStopCalled>>
  /\ UNCHANGED <<vaultVars, flowVars, clientVars, idVars, rotVars, cmdVars>>

(* The interval fires: sendHeartbeat is called whatever is in flight.      *)
HbTick ==
  /\ hbTimer # NoTimer
  /\ hbTimer <= hnow
  /\ hbInflight < MaxHbInflight
  /\ HbSend
  /\ hbTimer' = hbTimer + hbInterval
  /\ UNCHANGED <<hnow, hbPhase, hbRetryTimers, hbRetryCount, hbEvents,
                 hbDisconnects, hbLastDelay, hbStopCalled>>
  /\ UNCHANGED <<vaultVars, flowVars, clientVars, idVars, rotVars, cmdVars>>

(* A retry timer fires: sendHeartbeat is called again.                     *)
HbRetryFire(t) ==
  /\ t \in hbRetryTimers
  /\ t[1] <= hnow
  /\ hbInflight < MaxHbInflight
  /\ HbSend
  /\ hbRetryTimers' = hbRetryTimers \ {t}
  /\ UNCHANGED <<hnow, hbPhase, hbTimer, hbRetryCount, hbEvents, hbDisconnects, hbLastDelay,
                 hbStopCalled>>
  /\ UNCHANGED <<vaultVars, flowVars, clientVars, idVars, rotVars, cmdVars>>

(* The second half of sendHeartbeat, and of start() when the request was   *)
(* the initial one: start goes on to setInterval after a response and      *)
(* rejects after a failure.                                                *)
HbAnswer(outcome) ==
  /\ hbInflight > 0
  /\ hbInflight' = hbInflight - 1
  /\ hbDisconnects' =
       IF outcome = "fail" /\ hbRetryCount + 1 >= hbMaxRetries
         THEN hbDisconnects + 1 ELSE hbDisconnects
  /\ IF outcome = "fail"
       THEN /\ hbRetryCount' = hbRetryCount + 1
            /\ hbPhase' = IF hbPhase = "starting" THEN "startFailed"
                          ELSE hbPhase
            /\ IF hbRetryCount + 1 >= hbMaxRetries
                 THEN /\ HbStopped(hbEvents \cup
                           {"disconnected"} \cup
                           (IF hbPhase = "starting" THEN {} ELSE {"error"}))
                      /\ UNCHANGED <<hbRetryTimers, hbLastDelay>>
                 ELSE /\ hbRetryTimers' = hbRetryTimers \cup
                           {<<hnow + hbRetryDelay(hbRetryCount + 1),
                              hbRetryCount + 1>>}
                      /\ hbLastDelay' = hbRetryDelay(hbRetryCount + 1)
                      /\ hbEvents' = hbEvents \cup {"retry"} \cup
                           (IF hbPhase = "starting" THEN {} ELSE {"error"})
                      /\ UNCHANGED hbTimer
       ELSE /\ hbRetryCount' = IF outcome = "success" THEN 0 ELSE hbRetryCount
            /\ hbPhase' = IF hbPhase = "starting" THEN "running" ELSE hbPhase
            /\ hbTimer' = IF hbPhase = "starting" THEN hnow + hbInterval
                          ELSE hbTimer
            /\ hbEvents' = hbEvents
                 \cup (IF outcome = "success" THEN {"heartbeat"} ELSE {})
                 \cup (IF hbPhase = "starting" THEN {"started"} ELSE {})
            /\ UNCHANGED <<hbRetryTimers, hbLastDelay>>
  /\ UNCHANGED <<hnow, hbStopCalled, hbSentAfterStop, hbSentAfterDisconnect>>
  /\ UNCHANGED <<vaultVars, flowVars, clientVars, idVars, rotVars, cmdVars>>

(* The owner calls stop().                                                 *)
HbStop ==
  /\ hbPhase # "idle"
  /\ ~hbStopCalled
  /\ hbStopCalled' = TRUE
  /\ HbStopped(hbEvents)
  /\ UNCHANGED <<hnow, hbPhase, hbRetryTimers, hbInflight, hbRetryCount,
                 hbDisconnects, hbLastDelay, hbSentAfterStop, hbSentAfterDisconnect>>
  /\ UNCHANGED <<vaultVars, flowVars, clientVars, idVars, rotVars, cmdVars>>

(* Time passes once every timer that is due has fired.                     *)
HbClockTick ==
  /\ hbPhase # "idle"
  /\ hnow < MaxHbTime
  /\ hbTimer = NoTimer \/ hbTimer > hnow
  /\ \A t \in hbRetryTimers : t[1] > hnow
  /\ hnow' = hnow + 1
  /\ UNCHANGED <<hbPhase, hbTimer, hbRetryTimers, hbInflight, hbRetryCount,
                 hbEvents, hbDisconnects, hbLastDelay, hbStopCalled, hbSentAfterStop,
                 hbSentAfterDisconnect>>
  /\ UNCHANGED <<vaultVars, flowVars, clientVars, idVars, rotVars, cmdVars>>

NextHeartbeat ==
  \/ \E w \in BOOLEAN, k \in BOOLEAN : HbStart(w, k)
  \/ HbTick
  \/ \E t \in hbRetryTimers : HbRetryFire(t)
  \/ \E o \in HbOutcomes : HbAnswer(o)
  \/ HbStop
  \/ HbClockTick

(***************************************************************************)
(* The identity files: getOrCreateWorkspaceId, getWorkspaceId and          *)
(* promptForWorkspaceName of utils/workspace.js, getOrCreateDeviceId and   *)
(* getDeviceId of utils/context.js, getDeviceId of utils/device.js.  The   *)
(* last two modules share the file device.json.                            *)
(***************************************************************************)
MaxIds == 3

(* What readFile and JSON.parse make of a file: missing, not JSON, or an   *)
(* object whose id field may be absent (Undefined).                        *)
NoFile == [kind |-> "missing"]
InvalidFile == [kind |-> "invalid"]
Null == <<"null">>
Undefined == <<"undefined">>
JsonFile(id, name) == [kind |-> "json", id |-> id, name |-> name]

(* String.prototype.trim on a name written as a sequence of chunks, the    *)
(* chunk " " standing for white space.                                     *)
RECURSIVE trimStart(_)
trimStart(s) == IF s # <<>> /\ Head(s) = " " THEN trimStart(Tail(s)) ELSE s

RECURSIVE trimEnd(_)
trimEnd(s) ==
  IF s # <<>> /\ s[Len(s)] = " " THEN trimEnd(SubSeq(s, 1, Len(s) - 1)) ELSE s

trim(s) == trimEnd(trimStart(s))

(* generateDefaultWorkspaceName: hostname-platform-hash.                   *)
generateDefaultWorkspaceName == <<"host-linux-", "a1b2c3">>

(* options.workspaceName and REPOCHIEF_WORKSPACE_NAME: unset, or a string  *)
(* (any non-empty string is truthy).                                       *)
NameInputs == { <<>>, <<" ">>, <<"ci-box">>, <<"ci-box", " ">> }

(* How the interactive prompt ends: with an answer that passed validate    *)
(* (its trim is not empty), the default being one of them, or with the     *)
(* 30 s timer of Promise.race winning.                                     *)
PromptOutcomes ==
  { [kind |-> "timeout", name |-> <<>>] } \cup
  { [kind |-> "answered", name |-> n] :
      n \in { generateDefaultWorkspaceName, <<"laptop">>, <<" ", "laptop">> } }

(* promptForWorkspaceName: the option, the environment variable, the       *)
(* default name when asked for or when non-interactive, else the prompt;   *)
(* PROMPT_TIMEOUT is turned into an Error that is thrown.                  *)
promptForWorkspaceName(optName, envName, auto, nonInteractive, prompt) ==
  IF optName # <<>> THEN [threw |-> FALSE, name |-> trim(optName)]
  ELSE IF envName # <<>> THEN [threw |-> FALSE, name |-> trim(envName)]
  ELSE IF auto \/ nonInteractive
    THEN [threw |-> FALSE, name |-> generateDefaultWorkspaceName]
  ELSE IF prompt.kind = "answered"
    THEN [threw |-> FALSE, name |-> trim(prompt.name)]
  ELSE [threw |-> TRUE, name |-> <<>>]

(* getOrCreateWorkspaceId and getOrCreateDeviceId: return the id field of  *)
(* a file that parses; otherwise generate an id, ask for a name and write  *)
(* the file.  named is the outcome of the naming prompt.                   *)
getOrCreate_Regenerating(file, newId, named) ==
  IF named.threw
    THEN [ret |-> Null, file |-> file, created |-> FALSE, threw |-> TRUE]
    ELSE [ret |-> newId, file |-> JsonFile(newId, named.name),
          created |-> TRUE, threw |-> FALSE]
getOrCreate(file, newId, named) ==
  IF file.kind = "json"
    THEN [ret |-> file.id, file |-> file, created |-> FALSE, threw |-> FALSE]
  ELSE IF named.threw
    THEN [ret |-> Null, file |-> file, created |-> FALSE, threw |-> TRUE]
  ELSE [ret |-> newId, file |-> JsonFile(newId, named.name),
        created |-> TRUE, threw |-> FALSE]

(* getWorkspaceId and getDeviceId of context.js: the id field, or null     *)
(* when the file cannot be read or parsed.                                 *)
getId(file) ==
  [ret |-> IF file.kind = "json" THEN file.id ELSE Null, file |-> file,
   created |-> FALSE, threw |-> FALSE]

(* getDeviceId of utils/device.js: the deviceId of the file when it is     *)
(* there and truthy, else a new id written to device.json.                 *)
deviceGetDeviceId(file, newId) ==
  IF file.kind = "json" /\ file.id # Undefined
    THEN [ret |-> file.id, file |-> file, created |-> FALSE, threw |-> FALSE]
    ELSE [ret |-> newId, file |-> JsonFile(newId, <<>>), created |-> TRUE,
          threw |-> FALSE]

NoIdOp ==
  [op |-> "none", fn |-> "", ret |-> Null, threw |-> FALSE,
   created |-> FALSE, before |-> NoFile, asked |-> "", explicit |-> FALSE]

InitIdentity ==
  /\ workspaceFile = NoFile
  /\ deviceFile = NoFile
  /\ idNext = 0
  /\ idLast = NoIdOp
  /\ idPrev = NoIdOp

(***************************************************************************)
(* Refreshes of one client against a server that rotates refresh tokens:   *)
(* handleTokenRefresh with refreshAccessToken, the server's handling of    *)
(* the exchange being a step of its own between the two awaits.  The       *)
(* keychain works throughout and holds the token the login stored.         *)
(***************************************************************************)
MaxRotations == 3

RotWsId == "ws_1"

LoginRt == <<"rt", 0>>

NoExchange == [pc |-> "idle", xrt |-> NoSecret, status |-> 0, rt |-> NoSecret]

InitRotation ==
  /\ srvRt = LoginRt
  /\ srvSeq = 0
  /\ exch = [r \in {1, 2} |-> NoExchange]
  /\ exchStale = FALSE

NoCmd ==
  [cmd |-> "none", ok |-> FALSE, why |-> "", steps |-> <<>>, flow |-> "",
   rt |-> NoSecret, key |-> "", native |-> FALSE, wsBefore |-> NoFile,
   kcBefore |-> [i \in Ids |-> NoSecret],
   fileBefore |-> [i \in Ids |-> NoBlob]]

InitCommands == lastCmd = NoCmd

InitLocal == InitHeartbeat /\ InitIdentity /\ InitRotation /\ InitCommands

(***************************************************************************)
(* The authenticated API client: class APIClient of utils/api-client.js    *)
(* (the workspace version), with handleTokenRefresh and refreshAccessToken *)
(* of utils/oauth.js.  Every await on the network is a separate step.      *)
(***************************************************************************)
Reqs == {1, 2}

MaxClock == 12

\* minutes that pass in one step of the clock
TickMinutes == 4

MaxIssued == 2

\* 5 * 60 * 1000 ms
FiveMinutes == 5

NoId == ""

WsId == "ws_1"

NoToken == <<>>

PAT == <<"pat">>

\* expires_in of the refresh answers, in minutes
RefreshLifetimes == {4, 5, 12}

\* Answers to an API request: 0 stands for no response (timeout, DNS).
ApiAnswers == {200, 401, 503, 0}

\* Answers of POST /auth/refresh; rt is the refresh_token field (NoSecret
\* when the server does not rotate).
RefreshAnswers ==
  { [status |-> 200, rt |-> s, expires_in |-> e] :
      s \in Secrets \cup {NoSecret}, e \in RefreshLifetimes }
  \cup { [status |-> c, rt |-> NoSecret, expires_in |-> 0] : c \in {401, 503, 0} }

\* no answer has settled the request yet
NoStatus == 0 - 1

\* this.publicEndpoints; a path is written as the sequence of its pieces
publicEndpoints ==
  { <<"/auth", "/device">>, <<"/auth", "/token">>, <<"/auth", "/authorize">>,
    <<"/auth", "/refresh">> }

\* Paths of the requests: two public endpoints, a protected one, and the
\* protected path /auth/tokens, which has /auth/token as a substring.
Urls ==
  { <<"/auth", "/refresh">>, <<"/auth", "/token">>, <<"/user", "/status">>,
    <<"/auth", "/token", "s">> }

(* url.includes(endpoint)                                                  *)
Includes(url, endpoint) ==
  \E i \in 0..(Len(url) - Len(endpoint)) :
    SubSeq(url, i + 1, i + Len(endpoint)) = endpoint

(* this.publicEndpoints.some(endpoint => config.url?.includes(endpoint))   *)
isPublicEndpoint(url) == \E e \in publicEndpoints : Includes(url, e)

\* via: what getAuthToken did at the last pass of the request interceptor;
\* margin: minutes to expiry of the cached token it handed out;
\* rotated: the rotated refresh token the last exchange of the request gave;
\* attempts: how often the request was sent; backoff: the delay (seconds)
\* of its last transient retry; nest: refresh exchanges outstanding, each
\* but the first started by the client of the one before; nestRetry: the
\* innermost of them is itself a replay.
NewReq ==
  [pc |-> "new", public |-> FALSE, retry |-> FALSE, retryCount |-> 0,
   header |-> NoToken, err |-> "", status |-> NoStatus, xrt |-> NoSecret,
   refreshes |-> 0, replays |-> 0, via |-> "", margin |-> 0,
   rotated |-> NoSecret, attempts |-> 0, backoff |-> 0, nest |-> 0,
   nestRetry |-> FALSE]

(* The request leaves with the given x-api-key header.                     *)
Sent(rq, tok) ==
  [rq EXCEPT !.pc = "sent", !.header = tok, !.attempts = @ + 1]

(* The request leaves, getAuthToken having returned tok by the given path. *)
SentVia(rq, tok, how) ==
  [Sent(rq, tok) EXCEPT !.via = how, !.margin = 0]

(* The promise of the request rejects on an answer of the given status:    *)
(* the error the caller receives.                                          *)
Failed(rq, status, e) ==
  [rq EXCEPT !.pc = "failed", !.status = status, !.err = e]

(* The raw axios error of an answer.                                       *)
HttpError_Replaced(status) == "REQUEST FAILED"

HttpError(status) ==
  IF status = 401 THEN "HTTP 401"
  ELSE IF status = 503 THEN "HTTP 503"
  ELSE "NO RESPONSE"

(* getAuthToken where it does not refresh: the cached token while it has   *)
(* not expired, null otherwise.                                            *)
CachedOrNull(acc, exp, now) ==
  IF acc # NoToken /\ exp > now THEN acc ELSE NoToken

(* The request leaves with what getAuthToken returns without refreshing:   *)
(* the cached token while it has not expired, null otherwise.              *)
SentCached(rq, acc, exp, now) ==
  IF CachedOrNull(acc, exp, now) # NoToken
    THEN [Sent(rq, acc) EXCEPT !.via = "cached", !.margin = exp - now]
    ELSE SentVia(rq, NoToken, "null")

(* The request interceptor with getAuthToken, up to the request leaving or *)
(* to the proactive refresh exchange being sent.  The result is the        *)
(* request record and the secrets file (a read may migrate an entry).      *)
RequestInterceptor(rq, nativeOk, acc, exp, kc, file) ==
  IF rq.public
    THEN [rq |-> SentVia(rq, NoToken, "public"), file |-> file]
  ELSE IF ctorToken # NoToken
    THEN [rq |-> SentVia(rq, ctorToken, "ctor"), file |-> file]
  ELSE IF identity = NoId
    THEN [rq |-> SentVia(rq, NoToken, "noIdentity"), file |-> file]
  ELSE IF acc # NoToken /\ exp # 0 /\ exp - cnow < FiveMinutes
    THEN LET g == getToken(kc, file, identity, nativeOk)
         IN IF g.ret # NoSecret
              THEN [rq |-> [rq EXCEPT !.pc = "authRefresh", !.xrt = g.ret,
                                      !.refreshes = @ + 1,
                                      !.via = "proactive", !.margin = 0],
                    file |-> g.file]
              ELSE [rq |-> SentCached(rq, acc, exp, cnow), file |-> g.file]
  ELSE [rq |-> SentCached(rq, acc, exp, cnow), file |-> file]

(* handleTokenRefresh after the exchange: a refresh token that differs     *)
(* from the one sent is stored before anything else is done.               *)
PersistRotation_Skipped(kc, file, id, newRt, sentRt, nativeOk) ==
  [kc |-> kc, file |-> file]

PersistRotation(kc, file, id, newRt, sentRt, nativeOk) ==
  IF newRt # sentRt
    THEN storeToken(kc, file, id, newRt, nativeOk)
    ELSE [kc |-> kc, file |-> file]

(* handleTokenRefresh up to the exchange being sent; without an identity   *)
(* or a refresh token it throws and the interceptor raises UNAUTHORIZED.   *)
StartRefresh(rq, nativeOk) ==
  IF identity = NoId
    THEN [rq |-> Failed(rq, 401, "UNAUTHORIZED"), file |-> tokensFile]
  ELSE LET g == getToken(keychain, tokensFile, identity, nativeOk)
       IN IF g.ret = NoSecret
            THEN [rq |-> Failed(rq, 401, "UNAUTHORIZED"), file |-> g.file]
            ELSE [rq |-> [rq EXCEPT !.pc = "refreshing", !.xrt = g.ret,
                                    !.refreshes = @ + 1],
                  file |-> g.file]

InitClient(id, tok) ==
  /\ cnow = 0
  /\ identity = id
  /\ ctorToken = tok
  /\ accessToken = NoToken
  /\ accessExpiry = 0
  /\ req = [r \in Reqs |-> NewReq]
  /\ issued = 0

(* A caller issues a request (get, post, ...): the request interceptor.    *)
Issue(r, public, nativeOk) ==
  /\ req[r].pc = "new"
  /\ LET x == RequestInterceptor([req[r] EXCEPT !.public = public], nativeOk,
                                 accessToken, accessExpiry, keychain,
                                 tokensFile)
     IN /\ req' = [req EXCEPT ![r] = x.rq]
        /\ tokensFile' = x.file
  /\ UNCHANGED <<keychain, devKeychain, tokenFile, lastOp, flowVars, localVars, cnow,
                 identity, ctorToken, accessToken, accessExpiry, issued>>

(* The transient retries the request may still use: _retryCount against   *)
(* this.maxRetries, both independent of _retry.                            *)
RetriesLeft_SharedWithReplay(rq) == maxRetries - rq.retryCount - rq.replays

RetriesLeft(rq) == maxRetries - rq.retryCount

(* The response interceptor on the answer to request r.                    *)
ApiAnswer(r, status, nativeOk) ==
  /\ req[r].pc = "sent"
  /\ LET rq == req[r]
         x == IF status = 200
                THEN [rq |-> [rq EXCEPT !.pc = "done", !.status = 200],
                      file |-> tokensFile]
              ELSE IF status = 401 /\ ~rq.retry /\ ~rq.public
                THEN StartRefresh([rq EXCEPT !.retry = TRUE], nativeOk)
              ELSE IF shouldRetry([status |-> status]) /\ RetriesLeft(rq) > 0
                THEN [rq |-> [rq EXCEPT !.pc = "backoff", !.retryCount = @ + 1,
                                !.backoff = transportDelay(rq.retryCount + 1)],
                      file |-> tokensFile]
              ELSE [rq |-> Failed(rq, status, HttpError(status)),
                    file |-> tokensFile]
     IN /\ req' = [req EXCEPT ![r] = x.rq]
        /\ tokensFile' = x.file
  /\ UNCHANGED <<keychain, devKeychain, tokenFile, lastOp, flowVars, localVars, cnow,
                 identity, ctorToken, accessToken, accessExpiry, issued>>

(* The backoff of a transient failure is over: this.axios(originalRequest). *)
Resend(r, nativeOk) ==
  /\ req[r].pc = "backoff"
  /\ LET x == RequestInterceptor(req[r], nativeOk, accessToken, accessExpiry,
                                 keychain, tokensFile)
     IN /\ req' = [req EXCEPT ![r] = x.rq]
        /\ tokensFile' = x.file
  /\ UNCHANGED <<keychain, devKeychain, tokenFile, lastOp, flowVars, localVars, cnow,
                 identity, ctorToken, accessToken, accessExpiry, issued>>

(* The refresh exchange of request r ends (the answer its own client gives *)
(* up with, after its transport retries): refreshAccessToken, then         *)
(* the rest of handleTokenRefresh, then the replay of the request (after a *)
(* 401) or the return of getAuthToken (proactive refresh).                 *)
RefreshAnswer(r, xa, nativeOk) ==
  /\ req[r].pc \in {"refreshing", "authRefresh"}
  /\ LET rq == req[r] IN
     IF xa.status # 200
       THEN /\ req' = [req EXCEPT ![r] =
                         IF rq.pc = "refreshing"
                           THEN Failed(rq, 401, "UNAUTHORIZED")
                           ELSE SentVia(rq, NoToken,
                                        IF xa.status = 401
                                          THEN "refresh401"
                                          ELSE "refreshError")]
            /\ UNCHANGED <<keychain, tokensFile, accessToken, accessExpiry,
                           issued>>
     ELSE /\ issued < MaxIssued
          /\ LET newRt == IF xa.rt # NoSecret THEN xa.rt ELSE rq.xrt
                 v == PersistRotation(keychain, tokensFile, identity, newRt,
                                      rq.xrt, nativeOk)
                 acc == <<"A", issued + 1>>
                 exp == cnow + xa.expires_in
                 rq2 == [rq EXCEPT !.rotated =
                           IF newRt # rq.xrt THEN newRt ELSE @]
                 x == IF rq.pc = "refreshing"
                        THEN RequestInterceptor(
                               [rq2 EXCEPT !.replays = @ + 1], nativeOk, acc,
                               exp, v.kc, v.file)
                        ELSE [rq |-> SentVia(rq2, acc, "refreshed"),
                              file |-> v.file]
             IN /\ keychain' = v.kc
                /\ tokensFile' = x.file
                /\ accessToken' = acc
                /\ accessExpiry' = exp
                /\ issued' = issued + 1
                /\ req' = [req EXCEPT ![r] = x.rq]
  /\ UNCHANGED <<devKeychain, tokenFile, lastOp, flowVars, localVars, cnow, identity,
                 ctorToken>>

(* A minute passes.                                                        *)
ClientTick ==
  /\ cnow < MaxClock
  /\ \E r \in Reqs : req[r].pc \notin {"done", "failed"}
  /\ cnow' = cnow + TickMinutes
  /\ UNCHANGED <<vaultVars, flowVars, localVars, identity, ctorToken, accessToken,
                 accessExpiry, req, issued>>

(* One logical request at a time, with the clock running.                  *)
NextClient ==
  \/ \E u \in Urls, n \in BOOLEAN : Issue(1, isPublicEndpoint(u), n)
  \/ \E s \in ApiAnswers, n \in BOOLEAN : ApiAnswer(1, s, n)
  \/ \E n \in BOOLEAN : Resend(1, n)
  \/ \E xa \in RefreshAnswers, n \in BOOLEAN : RefreshAnswer(1, xa, n)
  \/ ClientTick

(* The refresh answers whose access token outlives the requests at hand.  *)
LongLivedRefreshAnswers ==
  {xa \in RefreshAnswers : xa.status # 200 \/ xa.expires_in > FiveMinutes}

(* Requests issued concurrently on one client, within one minute.          *)
NextClientPair ==
  \/ \E r \in Reqs, u \in Urls, n \in BOOLEAN :
        Issue(r, isPublicEndpoint(u), n)
  \/ \E r \in Reqs, s \in ApiAnswers, n \in BOOLEAN : ApiAnswer(r, s, n)
  \/ \E r \in Reqs, n \in BOOLEAN : Resend(r, n)
  \/ \E r \in Reqs, xa \in LongLivedRefreshAnswers, n \in BOOLEAN :
        RefreshAnswer(r, xa, n)

(* The client's starting states: with or without an identity, a login      *)
(* having left the refresh token in the keychain or in the secrets file.   *)
LoginToken == <<"sbp_", "k1">>

InitClientSpec ==
  /\ InitFlow
  /\ InitLocal
  /\ \E id \in {NoId, WsId}, tok \in {NoToken, PAT} : InitClient(id, tok)
  /\ devKeychain = [i \in DeviceIds |-> NoSecret]
  /\ tokenFile = NoBlob
  /\ lastOp = NoOp
  /\ \E where \in {"keychain", "file", "nowhere"} :
       /\ keychain = [i \in Ids |->
            IF i = WsId /\ where = "keychain" THEN LoginToken ELSE NoSecret]
       /\ tokensFile = [i \in Ids |->
            IF i = WsId /\ where = "file"
              THEN encryptToken(LoginToken) ELSE NoBlob]

(***************************************************************************)
(* The device variant of the client (src/utils/api-client.js with          *)
(* utils/device.js): its request interceptor and getAuthToken.             *)
(***************************************************************************)

(* getToken of utils/device.js: the keychain, then the file .token.        *)
DeviceGetToken(kc, file, id, nativeOk) ==
  IF nativeOk /\ kc[id] # NoSecret THEN kc[id]
  ELSE IF file # NoBlob /\ file.deviceId = id THEN file.token
  ELSE NoSecret

(* getAuthToken of the device variant: the constructor token, the cached   *)
(* access token while it has not expired, else the stored token itself.    *)
DeviceGetAuthToken(tok, id, acc, exp, now, kc, file, nativeOk) ==
  IF tok # NoToken THEN tok
  ELSE IF id = NoId THEN NoToken
  ELSE IF acc # NoToken /\ exp > now THEN acc
  ELSE DeviceGetToken(kc, file, id, nativeOk)

(* A request leaves through the interceptor of the device variant, which   *)
(* sets the Authorization header to whatever getAuthToken returns.  The    *)
(* field public records whether the path is one of the public endpoints.   *)
DeviceIssue(r, url, id, nativeOk) ==
  /\ req' = [req EXCEPT ![r] =
       SentVia([NewReq EXCEPT !.public = (url \in publicEndpoints)],
               DeviceGetAuthToken(ctorToken, id, accessToken, accessExpiry,
                                  cnow, devKeychain, tokenFile, nativeOk),
               "device")]
  /\ UNCHANGED <<vaultVars, flowVars, localVars, cnow, identity, ctorToken, accessToken,
                 accessExpiry, issued>>

MaxNest == 3

\* Answers of POST /auth/refresh to the device variant, from a server that
\* does not rotate refresh tokens (the body carries no refresh_token).
DeviceRefreshAnswers ==
  { [status |-> 200, rt |-> NoSecret, expires_in |-> 12] }
  \cup { [status |-> c, rt |-> NoSecret, expires_in |-> 0] : c \in {401, 503} }

(* handleTokenRefresh of the device variant up to the exchange being sent  *)
(* by the client that refreshAccessToken creates; without a device id or   *)
(* a stored token it throws, and so does every caller above it, the        *)
(* outermost raising UNAUTHORIZED.                                         *)
DeviceStartRefresh(rq, id, nativeOk) ==
  IF id = NoId \/ DeviceGetToken(devKeychain, tokenFile, id, nativeOk) = NoSecret
    THEN [Failed(rq, 401, "UNAUTHORIZED") EXCEPT !.nest = 0]
    ELSE [rq EXCEPT !.pc = "refreshing", !.refreshes = @ + 1,
                    !.nest = @ + 1, !.nestRetry = FALSE,
                    !.xrt = DeviceGetToken(devKeychain, tokenFile, id,
                                           nativeOk)]

(* The response interceptor of the device variant on the answer to r: a    *)
(* first 401 starts the refresh, whatever the path of the request.         *)
DeviceApiAnswer(r, status, id, nativeOk) ==
  /\ req[r].pc = "sent"
  /\ req' = [req EXCEPT ![r] =
       IF status = 200 THEN [req[r] EXCEPT !.pc = "done", !.status = 200]
       ELSE IF status = 401 /\ ~req[r].retry
         THEN DeviceStartRefresh([req[r] EXCEPT !.retry = TRUE], id, nativeOk)
       ELSE Failed(req[r], status, HttpError(status))]
  /\ UNCHANGED <<vaultVars, flowVars, localVars, cnow, identity, ctorToken,
                 accessToken, accessExpiry, issued>>

(* The answer to the innermost refresh exchange of r.  It went out through *)
(* an APIClient of its own, whose response interceptor treats its 401 like *)
(* any other: it starts a refresh, which creates the next client.  A       *)
(* success returns to the handleTokenRefresh one level up (the refresh     *)
(* token is the one sent, so nothing is stored), and then either the       *)
(* request itself is replayed or the refresh exchange one level up is.     *)
DeviceRefreshAnswer(r, xa, id, nativeOk) ==
  /\ req[r].pc = "refreshing"
  /\ id # NoId
  /\ LET rq == req[r] IN
     IF xa.status = 200
       THEN    /\ UNCHANGED <<devKeychain, tokenFile>>
               /\ IF rq.nest = 1
                    THEN /\ issued < MaxIssued
                         /\ accessToken' = <<"A", issued + 1>>
                         /\ accessExpiry' = cnow + xa.expires_in
                         /\ issued' = issued + 1
                         /\ req' = [req EXCEPT ![r] =
                              SentVia([rq EXCEPT !.nest = 0, !.replays = @ + 1],
                                DeviceGetAuthToken(ctorToken, id,
                                  <<"A", issued + 1>>, cnow + xa.expires_in,
                                  cnow, devKeychain, tokenFile, nativeOk),
                                "device")]
                    ELSE /\ req' = [req EXCEPT ![r] =
                              [rq EXCEPT !.nest = @ - 1, !.nestRetry = TRUE,
                                         !.refreshes = @ + 1]]
                         /\ UNCHANGED <<accessToken, accessExpiry, issued>>
     ELSE /\ xa.status = 401 /\ ~rq.nestRetry => rq.nest < MaxNest
          /\ req' = [req EXCEPT ![r] =
               IF xa.status = 401 /\ ~rq.nestRetry
                 THEN DeviceStartRefresh(rq, id, nativeOk)
                 ELSE [Failed(rq, 401, "UNAUTHORIZED") EXCEPT !.nest = 0]]
          /\ UNCHANGED <<devKeychain, tokenFile, accessToken, accessExpiry,
                         issued>>
  /\ UNCHANGED <<keychain, tokensFile, lastOp, flowVars, localVars, cnow,
                 identity, ctorToken>>

NextDeviceClient ==
  \/ \E id \in DeviceIds, s \in Secrets, n \in BOOLEAN :
        DeviceSetToken(id, s, n)
  \/ \E r \in Reqs, u \in Urls, id \in DeviceIds \cup {NoId},
        n \in BOOLEAN : DeviceIssue(r, u, id, n)

(* One request of the device variant with its answers and refreshes.       *)
NextDeviceRefresh ==
  \/ \E id \in DeviceIds, s \in Secrets, n \in BOOLEAN :
        DeviceSetToken(id, s, n)
  \/ \E u \in Urls, id \in DeviceIds \cup {NoId}, n \in BOOLEAN :
        DeviceIssue(1, u, id, n)
  \/ \E c \in {200, 401, 503}, id \in DeviceIds \cup {NoId},
        n \in BOOLEAN : DeviceApiAnswer(1, c, id, n)
  \/ \E xa \in DeviceRefreshAnswers, id \in DeviceIds, n \in BOOLEAN :
        DeviceRefreshAnswer(1, xa, id, n)

InitDeviceClient ==
  /\ InitVault
  /\ InitFlow
  /\ InitLocal
  /\ \E tok \in {NoToken, PAT} : InitClient(NoId, tok)

(* What the server does with an exchange: the current refresh token is     *)
(* rotated, a token it has rotated out is refused.                         *)
ServerRotates(xrt, current, seq) ==
  IF xrt = current
    THEN [status |-> 200, rt |-> <<"rt", seq + 1>>,
          current |-> <<"rt", seq + 1>>, seq |-> seq + 1]
    ELSE [status |-> 401, rt |-> NoSecret, current |-> current, seq |-> seq]

(* handleTokenRefresh up to the exchange leaving: the stored refresh token *)
(* is read and sent.                                                       *)
RotStart(r) ==
  /\ exch[r].pc \in {"idle", "done", "failed"}
  /\ LET g == getToken(keychain, tokensFile, RotWsId, TRUE)
     IN /\ tokensFile' = g.file
        /\ exch' = [exch EXCEPT ![r] =
             IF g.ret = NoSecret THEN [NoExchange EXCEPT !.pc = "failed"]
             ELSE [NoExchange EXCEPT !.pc = "sent", !.xrt = g.ret]]
        /\ exchStale' = (exchStale \/ (g.ret # NoSecret /\ g.ret # srvRt))
  /\ UNCHANGED <<keychain, devKeychain, tokenFile, lastOp, srvRt, srvSeq>>
  /\ UNCHANGED <<flowVars, clientVars, hbVars, idVars, cmdVars>>

(* The server handles the exchange of caller r.                            *)
RotServe(r) ==
  /\ exch[r].pc = "sent"
  /\ srvSeq < MaxRotations
  /\ LET a == ServerRotates(exch[r].xrt, srvRt, srvSeq)
     IN /\ srvRt' = a.current
        /\ srvSeq' = a.seq
        /\ exch' = [exch EXCEPT ![r] =
             [@ EXCEPT !.pc = "answered", !.status = a.status, !.rt = a.rt]]
  /\ UNCHANGED <<vaultVars, flowVars, clientVars, hbVars, idVars, cmdVars,
                 exchStale>>

(* The answer reaches the client: refreshAccessToken returns or throws,    *)
(* and handleTokenRefresh stores the rotated token and caches the access   *)
(* token.                                                                  *)
RotDeliver(r) ==
  /\ exch[r].pc = "answered"
  /\ IF exch[r].status = 200
       THEN LET v == PersistRotation(keychain, tokensFile, RotWsId,
                                     exch[r].rt, exch[r].xrt, TRUE)
            IN /\ keychain' = v.kc
               /\ tokensFile' = v.file
               /\ accessToken' = <<"A", exch[r].rt[2]>>
               /\ accessExpiry' = cnow + FiveMinutes
               /\ exch' = [exch EXCEPT ![r] = [@ EXCEPT !.pc = "done"]]
       ELSE /\ exch' = [exch EXCEPT ![r] = [@ EXCEPT !.pc = "failed"]]
            /\ UNCHANGED <<keychain, tokensFile, accessToken, accessExpiry>>
  /\ UNCHANGED <<devKeychain, tokenFile, lastOp, flowVars, cnow, identity,
                 ctorToken, req, issued, hbVars, idVars, cmdVars, srvRt,
                 srvSeq, exchStale>>

NextRotation ==
  \/ \E r \in {1, 2} : RotStart(r)
  \/ \E r \in {1, 2} : RotServe(r)
  \/ \E r \in {1, 2} : RotDeliver(r)

(* After the login: the refresh token the server issued is in the keychain. *)
InitRotationSpec ==
  /\ InitFlow
  /\ InitLocal
  /\ InitClient(RotWsId, NoToken)
  /\ keychain = [i \in Ids |-> IF i = RotWsId THEN LoginRt ELSE NoSecret]
  /\ devKeychain = [i \in DeviceIds |-> NoSecret]
  /\ tokensFile = [i \in Ids |-> NoBlob]
  /\ tokenFile = NoBlob
  /\ lastOp = NoOp

(* The record of an identity operation: what it found, what it returned.   *)
IdOp(op, fn, r, before) ==
  [NoIdOp EXCEPT !.op = op, !.fn = fn, !.ret = r.ret, !.threw = r.threw,
                 !.created = r.created, !.before = before]

IdStep(op) ==
  /\ idPrev' = idLast
  /\ idLast' = op
  /\ idNext' = IF op.created THEN idNext + 1 ELSE idNext

GetOrCreateWorkspaceId(optName, envName, auto, nonInteractive, prompt) ==
  LET named == promptForWorkspaceName(optName, envName, auto,
                                      nonInteractive, prompt)
      r == getOrCreate(workspaceFile, <<"ws_", idNext + 1>>, named)
  IN /\ idNext < MaxIds
     /\ workspaceFile' = r.file
     /\ IdStep([IdOp("getOrCreate", "workspace", r, workspaceFile) EXCEPT
          !.explicit = (optName # <<>> \/ envName # <<>>),
          !.asked = IF workspaceFile.kind = "json" THEN ""
                    ELSE IF auto \/ nonInteractive THEN "nobody"
                    ELSE prompt.kind])
     /\ UNCHANGED deviceFile
     /\ UNCHANGED <<vaultVars, flowVars, clientVars, hbVars, rotVars, cmdVars>>

GetWorkspaceId ==
  LET r == getId(workspaceFile)
  IN /\ workspaceFile' = r.file
     /\ IdStep(IdOp("get", "workspace", r, workspaceFile))
     /\ UNCHANGED deviceFile
     /\ UNCHANGED <<vaultVars, flowVars, clientVars, hbVars, rotVars, cmdVars>>

(* promptForDeviceName of context.js has no timeout and no default path:   *)
(* the call goes on once the prompt has been answered.                     *)
ContextGetOrCreateDeviceId(name) ==
  LET r == getOrCreate(deviceFile, <<"dev_", idNext + 1>>,
                       [threw |-> FALSE, name |-> trim(name)])
  IN /\ idNext < MaxIds
     /\ deviceFile' = r.file
     /\ IdStep(IdOp("getOrCreate", "context", r, deviceFile))
     /\ UNCHANGED workspaceFile
     /\ UNCHANGED <<vaultVars, flowVars, clientVars, hbVars, rotVars, cmdVars>>

ContextGetDeviceId ==
  LET r == getId(deviceFile)
  IN /\ deviceFile' = r.file
     /\ IdStep(IdOp("get", "context", r, deviceFile))
     /\ UNCHANGED workspaceFile
     /\ UNCHANGED <<vaultVars, flowVars, clientVars, hbVars, rotVars, cmdVars>>

DeviceGetDeviceId ==
  LET r == deviceGetDeviceId(deviceFile, <<"hex_", idNext + 1>>)
  IN /\ idNext < MaxIds
     /\ deviceFile' = r.file
     /\ IdStep(IdOp("get", "device", r, deviceFile))
     /\ UNCHANGED workspaceFile
     /\ UNCHANGED <<vaultVars, flowVars, clientVars, hbVars, rotVars, cmdVars>>

(* An identity file as the functions above can find it after something     *)
(* other than them wrote it: not JSON, or JSON without the id field.       *)
IdentityFileDamaged(which, content) ==
  /\ IF which = "workspace"
       THEN workspaceFile # content /\ workspaceFile' = content
                                    /\ UNCHANGED deviceFile
       ELSE deviceFile # content /\ deviceFile' = content
                                 /\ UNCHANGED workspaceFile
  /\ IdStep([NoIdOp EXCEPT !.op = "external", !.fn = which])
  /\ UNCHANGED <<vaultVars, flowVars, clientVars, hbVars, rotVars, cmdVars>>

NextIdentity ==
  \/ \E o \in NameInputs, v \in NameInputs, a \in BOOLEAN, n \in BOOLEAN,
        p \in PromptOutcomes : GetOrCreateWorkspaceId(o, v, a, n, p)
  \/ GetWorkspaceId
  \/ \E nm \in {<<"laptop">>, <<" ", "laptop">>} :
        ContextGetOrCreateDeviceId(nm)
  \/ ContextGetDeviceId
  \/ DeviceGetDeviceId
  \/ \E w \in {"workspace", "device"},
        c \in {InvalidFile, JsonFile(Undefined, <<>>)} :
        IdentityFileDamaged(w, c)

(***************************************************************************)
(* The auth commands: handleOAuthFlow and handleTokenAuth of the login     *)
(* command, handleLogout of the logout command.  Each runs to its end in   *)
(* one step; steps lists what it did in order.                             *)
(***************************************************************************)

(* The key of the vault for an identity: the id is the text `ws_${uuid}`.  *)
WorkspaceKey(id) == id[1] \o ToString(id[2])

(* How workspaceFlow and pollForToken end: the device code cannot be       *)
(* requested, or the poll resolves with the tokens or rejects.             *)
FlowOutcomes ==
  { [kind |-> "authorized", tokens |-> TokenPayload(b)] : b \in TokenResponses }
  \cup { [kind |-> k, tokens |-> NoBody] :
           k \in {"noCode", "denied", "expired", "error"} }

(* The record of a command that found the given identity file and vault.   *)
CmdOn(cmd, key, nativeOk) ==
  [NoCmd EXCEPT !.cmd = cmd, !.key = key, !.native = nativeOk,
                !.wsBefore = workspaceFile, !.kcBefore = keychain,
                !.fileBefore = tokensFile]

(* What the store of the login writes under.                               *)
KeyOf(file) == IF file.kind = "json" THEN WorkspaceKey(file.id) ELSE ""

(* handleOAuthFlow: workspaceFlow, the instructions, open() unless         *)
(* --no-browser, pollForToken, getOrCreateWorkspaceId, storeToken.  Every  *)
(* await is inside one try whose catch re-throws.                          *)
LoginOAuth(browser, openOk, outcome, envName, noTty, prompt, nativeOk) ==
  LET named == promptForWorkspaceName(<<>>, envName, FALSE, noTty, prompt)
      g == getOrCreate(workspaceFile, <<"ws_", idNext + 1>>, named)
      why == IF outcome.kind = "noCode" THEN "noCode"
             ELSE IF browser /\ ~openOk THEN "open"
             ELSE IF outcome.kind # "authorized" THEN "flow"
             ELSE IF g.threw THEN "prompt"
             ELSE ""
      steps == <<"code">>
               \o (IF why # "noCode" /\ browser THEN <<"open">> ELSE <<>>)
               \o (IF why \in {"flow", "prompt", ""} THEN <<"poll">> ELSE <<>>)
               \o (IF why \in {"prompt", ""} THEN <<"identity">> ELSE <<>>)
               \o (IF why = "" THEN <<"store", "success">> ELSE <<"throw">>)
      c == [CmdOn("oauth", KeyOf(workspaceFile), nativeOk) EXCEPT
              !.ok = (why = ""), !.why = why, !.steps = steps,
              !.flow = outcome.kind, !.rt = outcome.tokens.refresh_token]
  IN /\ idNext < MaxIds
     /\ IF why = ""
          THEN LET v == storeToken(keychain, tokensFile, WorkspaceKey(g.ret),
                                   outcome.tokens.refresh_token, nativeOk)
               IN /\ workspaceFile' = g.file
                  /\ idNext' = IF g.created THEN idNext + 1 ELSE idNext
                  /\ keychain' = v.kc
                  /\ tokensFile' = v.file
                  /\ lastCmd' = [c EXCEPT !.key = WorkspaceKey(g.ret)]
          ELSE /\ lastCmd' = c
               /\ UNCHANGED <<workspaceFile, idNext, keychain, tokensFile>>
     /\ UNCHANGED <<devKeychain, tokenFile, lastOp, deviceFile, idLast, idPrev>>
     /\ UNCHANGED <<flowVars, clientVars, hbVars, rotVars>>

(* handleTokenAuth: getOrCreateWorkspaceId, then validateToken, then       *)
(* storeToken when the answer says valid.                                  *)
LoginWithToken(token, answer, envName, nonInteractive, prompt, nativeOk) ==
  LET named == promptForWorkspaceName(<<>>, envName, FALSE, nonInteractive,
                                      prompt)
      g == getOrCreate(workspaceFile, <<"ws_", idNext + 1>>, named)
      why == IF g.threw THEN "prompt"
             ELSE IF answer = "valid" THEN ""
             ELSE IF answer = "invalid" THEN "invalidToken"
             ELSE "error"
      steps == <<"identity">>
               \o (IF why # "prompt" THEN <<"validate">> ELSE <<>>)
               \o (IF why = "" THEN <<"store", "success">> ELSE <<"throw">>)
      c == [CmdOn("pat", KeyOf(workspaceFile), nativeOk) EXCEPT
              !.ok = (why = ""), !.why = why, !.steps = steps, !.rt = token]
  IN /\ idNext < MaxIds
     /\ workspaceFile' = g.file
     /\ idNext' = IF g.created THEN idNext + 1 ELSE idNext
     /\ IF why = ""
          THEN LET v == storeToken(keychain, tokensFile, WorkspaceKey(g.ret),
                                   token, nativeOk)
               IN /\ keychain' = v.kc
                  /\ tokensFile' = v.file
                  /\ lastCmd' = [c EXCEPT !.key = WorkspaceKey(g.ret)]
          ELSE /\ lastCmd' = c
               /\ UNCHANGED <<keychain, tokensFile>>
     /\ UNCHANGED <<devKeychain, tokenFile, lastOp, deviceFile, idLast, idPrev>>
     /\ UNCHANGED <<flowVars, clientVars, hbVars, rotVars>>

(* handleLogout: without an identity it reports 'Not logged in'; else the  *)
(* revocation, then removeToken, the catch removing the token as well      *)
(* before it re-throws the error of the revocation.                        *)
Logout(revokeOk, nativeOk) ==
  LET id == getId(workspaceFile).ret
      c == CmdOn("logout", KeyOf(workspaceFile), nativeOk)
  IN /\ IF id \in {Null, Undefined}
          THEN /\ lastCmd' = [c EXCEPT !.ok = TRUE, !.why = "notLoggedIn"]
               /\ UNCHANGED <<keychain, tokensFile>>
          ELSE LET v == removeToken(keychain, tokensFile, WorkspaceKey(id),
                                    nativeOk)
               IN /\ keychain' = v.kc
                  /\ tokensFile' = v.file
                  /\ lastCmd' = [c EXCEPT
                       !.ok = revokeOk,
                       !.why = IF revokeOk THEN "" ELSE "revoke",
                       !.steps = IF revokeOk THEN <<"revoke", "remove">>
                                 ELSE <<"revoke", "remove", "throw">>]
     /\ UNCHANGED <<devKeychain, tokenFile, lastOp, idVars>>
     /\ UNCHANGED <<flowVars, clientVars, hbVars, rotVars>>

NextCommands ==
  \/ \E b \in BOOLEAN, o \in BOOLEAN, f \in FlowOutcomes,
        e \in {<<>>, <<"ci-box">>}, ni \in BOOLEAN, p \in PromptOutcomes,
        n \in BOOLEAN : LoginOAuth(b, o, f, e, ni, p, n)
  \/ \E t \in Secrets, a \in {"valid", "invalid", "error"},
        e \in {<<>>, <<"ci-box">>}, ni \in BOOLEAN, p \in PromptOutcomes,
        n \in BOOLEAN : LoginWithToken(t, a, e, ni, p, n)
  \/ \E k \in BOOLEAN, n \in BOOLEAN : Logout(k, n)

InitCommandsSpec == InitVault /\ InitFlow /\ InitClient(NoId, NoToken) /\ InitLocal

Init == InitVault /\ InitFlow /\ InitClient(NoId, NoToken) /\ InitLocal

SpecHeartbeat == Init /\ [][NextHeartbeat]_vars

SpecIdentity == Init /\ [][NextIdentity]_vars

SpecRotation == InitRotationSpec /\ [][NextRotation]_vars

SpecCommands == InitCommandsSpec /\ [][NextCommands]_vars

SpecDeviceClient == InitDeviceClient /\ [][NextDeviceClient]_vars

SpecDeviceRefresh == InitDeviceClient /\ [][NextDeviceRefresh]_vars

SpecClient == InitClientSpec /\ [][NextClient]_vars

SpecClientPair == InitClientSpec /\ [][NextClientPair]_vars

SpecFlow == Init /\ [][NextFlow]_vars

SpecVault == Init /\ [][NextVault]_vars

SpecVaultCore == Init /\ [][NextVaultCore]_vars

(***************************************************************************)
(* Claims about the credential vault.                                      *)
(***************************************************************************)

(* C3: retrieve(id) right after store(id, S) returns S, with the native    *)
(* backend working at both calls or failing at both, whatever the keychain *)
(* and the secrets file held for id before.                                *)
C3_StoreThenRetrieve ==
  (lastOp.op = "retrieve" /\ lastOp.expect # NoSecret)
    => (lastOp.result = lastOp.expect /\ ~lastOp.threw)

(* The fallback round trip with a different, older secret still in the     *)
(* keychain.                                                               *)
C3_Witness ==
  /\ lastOp.op = "retrieve"
  /\ lastOp.expect # NoSecret
  /\ ~lastOp.native
  /\ lastOp.path = "decrypted"
  /\ lastOp.result = lastOp.expect
  /\ keychain[lastOp.id] \notin {NoSecret, lastOp.expect}

(* An entry that neither decrypts nor has the legacy token shape.          *)
Undecryptable(blob) ==
  blob # NoBlob /\ ~decryptToken(blob).ok /\ ~LegacyShape(blob.text)

(* C4: a retrieve that reads from the secrets file an entry that cannot be *)
(* decrypted and cannot be migrated raises an error to its caller.         *)
C4_UndecryptableRaises ==
  ( /\ lastOp.op = "retrieve"
    /\ lastOp.path # "keychain"
    /\ Undecryptable(tokensFile[lastOp.id]) )
    => lastOp.threw

(* C5: after any sequence of store, retrieve and remove, at most one of    *)
(* the keychain and the encrypted file holds a secret for an id.           *)
C5_AtMostOneBackend ==
  \A id \in Ids : ~(keychain[id] # NoSecret /\ tokensFile[id] # NoBlob)

(* What the last store wrote to disk.                                      *)
WrittenByLastStore ==
  IF lastOp.op = "deviceStore" THEN tokenFile ELSE tokensFile[lastOp.id]

(* C6: whenever a store finds the native backend failing, the value it     *)
(* writes to the file is the AES-256-GCM encryption of the secret.         *)
C6_StoreWritesOnlyCiphertext ==
  (lastOp.op \in {"store", "contextStore", "deviceStore"} /\ ~lastOp.native)
    => ( /\ WrittenByLastStore.kind = "aead"
         /\ WrittenByLastStore.pt = lastOp.secret )

(***************************************************************************)
(* Claims about the device authorization flow.                             *)
(***************************************************************************)

(* C7: no token request is sent once the clock has passed the expiry of    *)
(* the device code (start of polling + expires_in).                        *)
C7_NoRequestAfterExpiry ==
  lastIssueAt # NoTimer => lastIssueAt <= expiresAt

(* C8: no poll timer is scheduled to fire after the expiry instant.        *)
C8_NoTimerPastExpiry ==
  \A t \in timers : t <= expiresAt

(* C9: once a slow_down answer has been received, every poll of the flow   *)
(* waits at least twice the interval that was in effect before it.         *)
C9_SlowDownPersists ==
  slowDownSeen => lastDelay >= 2 * pollInterval

(* C10: at most one token request is in flight, and while one is in flight *)
(* neither a poll nor a re-send is scheduled.                              *)
C10_OneRequestInFlight ==
  /\ inflight <= 1
  /\ inflight = 1 => (timers = {} /\ retryAt = NoTimer)

(* A re-sent request in flight after a slow_down answer.                   *)
C10_Witness ==
  /\ inflight = 1
  /\ slowDownSeen
  /\ retryCount > 0
  /\ lastIssueAt > pollInterval

(* The states in which pollForToken has settled its promise.               *)
Settled == flow \in {"AUTHORIZED", "DENIED", "EXPIRED", "ERROR"}

(* C11: once pollForToken has settled, polling has stopped: no poll timer  *)
(* and no transport re-send is pending and no token request is in flight,  *)
(* so that no further request can be issued.                               *)
C11_SettledFlowIsQuiet ==
  Settled => (timers = {} /\ retryAt = NoTimer /\ inflight = 0)

(* The flow rejected on the expiry check after polls of its own, one of    *)
(* them answered slow_down.                                                *)
C11_Witness ==
  /\ flow = "EXPIRED"
  /\ flowError = "Device code expired. Please try again."
  /\ requests >= 2
  /\ slowDownSeen
  /\ timers = {}

(* An error answer with a protocol error code that is none of the four     *)
(* codes the flow knows, under a status that is not a 5xx.                 *)
OtherProtocolError(a) ==
  /\ a.status >= 400 /\ a.status < 500
  /\ a.error \notin {"", "authorization_pending", "slow_down",
                      "access_denied", "expired_token"}

C13_PendingThenSuccess ==
  /\ (onlyPending /\ timers # {}) => timers = {armedAt + pollInterval}
  /\ (onlyPending /\ inflight = 1) => lastIssueAt = armedAt + pollInterval
  /\ (onlyPending /\ flow = "AUTHORIZED")
       => ( /\ requests = pendings + 1
            /\ resolved.access_token = lastAnswer.body.access_token
            /\ resolved.refresh_token = lastAnswer.body.refresh_token
            /\ resolved.expires_in = lastAnswer.body.expires_in
            /\ resolved.user = lastAnswer.body.user )

(* Two pending answers, then the success.                                  *)
C13_Witness ==
  /\ flow = "AUTHORIZED"
  /\ onlyPending
  /\ pendings = 2
  /\ requests = 3
  /\ resolved.refresh_token # <<>>

(* An answer poll treats as a network or server failure.                   *)
TransientFailure(a) == a # NoAnswer /\ shouldRetry(a)

(* C14: a token request that failed with a network error or a 5xx leaves   *)
(* the flow in AWAITING_AUTHORIZATION with the next poll min(2 x interval, *)
(* 30 s) ahead, and an authorization_pending answer is still followed by   *)
(* the plain interval.                                                     *)
C14_NetworkBackoff ==
  /\ TransientFailure(lastAnswer)
       => ( /\ flow = "AWAITING_AUTHORIZATION"
            /\ lastDelay = Min(2 * pollInterval, BackoffCap)
            /\ timers = {armedAt + lastDelay} )
  /\ (lastAnswer.status = 400 /\ lastAnswer.error = "authorization_pending")
       => ( /\ flow = "AWAITING_AUTHORIZATION"
            /\ lastDelay = pollInterval
            /\ timers = {armedAt + pollInterval} )

(* The capped backoff: 2 x 16 s would be 32 s.                             *)
C14_Witness ==
  /\ lastAnswer.status = 503
  /\ pollInterval = 16
  /\ lastDelay = BackoffCap
  /\ flow = "AWAITING_AUTHORIZATION"

(***************************************************************************)
(* Claims about the authenticated API client.                              *)
(***************************************************************************)

(* The requests whose 401 has a refresh exchange in flight.                *)
Refreshing == {r \in Reqs : req[r].pc = "refreshing"}

(* C1: when two concurrent protected requests both receive a 401, a single *)
(* refresh exchange is made: no second exchange is sent while one is in    *)
(* flight.                                                                 *)
C1_RefreshCoalesced == Cardinality(Refreshing) <= 1

(* C2: a protected request that was replayed after a refresh and whose     *)
(* replay is answered 401 again rejects with the authentication-expired    *)
(* error (code UNAUTHORIZED).                                              *)
C2_ReplayUnauthorizedIsAuthExpired ==
  \A r \in Reqs :
    ( /\ req[r].pc = "failed"
      /\ ~req[r].public
      /\ req[r].replays = 1
      /\ req[r].status = 401 )
      => req[r].err = "UNAUTHORIZED"

(* A refresh token is stored for the identity of this client.              *)
StoredRefreshToken ==
  /\ identity # NoId
  /\ (keychain[identity] # NoSecret \/ tokensFile[identity] # NoBlob)

(* Request r has passed the request interceptor as a protected request of  *)
(* a client that was not given a token and has an identity.                *)
AuthTokenAsked(r) ==
  /\ req[r].pc # "new"
  /\ ~req[r].public
  /\ ctorToken = NoToken
  /\ identity # NoId

(* C15: on a client without a constructor token, getAuthToken hands out    *)
(* the cached access token or a refreshed one: with a refresh token stored *)
(* it never comes back empty-handed without an exchange.                   *)
C15_CachedOrRefreshed ==
  \A r \in Reqs :
    (AuthTokenAsked(r) /\ StoredRefreshToken) => req[r].via # "null"

(* C16: a cached access token that getAuthToken hands out is more than     *)
(* five minutes from its expiry.                                           *)
C16_CachedTokenIsFresh ==
  \A r \in Reqs :
    req[r].via = "cached" => req[r].margin > FiveMinutes

(* C17: when the refresh exchange that getAuthToken started is answered    *)
(* 401, the request is not sent: its caller receives the error that asks   *)
(* for a new login.                                                        *)
C17_RefreshFailureRaises ==
  \A r \in Reqs :
    req[r].via = "refresh401"
      => (req[r].pc = "failed" /\ req[r].err = "UNAUTHORIZED")

(* The vault returns the given refresh token from one of its backends.     *)
VaultHolds(id, secret) ==
  \/ keychain[id] = secret
  \/ /\ tokensFile[id] # NoBlob
     /\ decryptToken(tokensFile[id]).ok
     /\ decryptToken(tokensFile[id]).val = secret

C19_OneRefreshOneReplay ==
  \A r \in Reqs : req[r].refreshes <= 1 /\ req[r].replays <= 1

(* C20: a request to one of the public endpoints leaves without the user's *)
(* token, whatever token the client was constructed with or has stored.    *)
C20_PublicCarriesNoToken ==
  \A r \in Reqs :
    (req[r].pc = "sent" /\ req[r].public) => req[r].header = NoToken

(* C21: a request is retried after transient failures at most maxRetries   *)
(* times, the k-th retry after retryDelay * 2^(k-1); a request that        *)
(* succeeds after k transient failures was attempted k + 1 times.          *)
C21_TransientRetryBackoff ==
  \A r \in Reqs :
    /\ req[r].retryCount <= maxRetries
    /\ req[r].retryCount > 0
         => req[r].backoff = retryDelay * 2^(req[r].retryCount - 1)
    /\ (req[r].pc = "done" /\ ~req[r].retry /\ req[r].refreshes = 0)
         => req[r].attempts = req[r].retryCount + 1
    /\ req[r].attempts <= maxRetries + 1 + req[r].replays

(* Two transient failures, then the success at the third attempt.          *)
C21_Witness ==
  /\ req[1].pc = "done"
  /\ req[1].status = 200
  /\ req[1].retryCount = 2
  /\ req[1].backoff = 2
  /\ req[1].attempts = 3
  /\ ~req[1].retry

(* C22: when the transient retries of a request are exhausted its caller   *)
(* receives the error of the last answer, status and message unchanged.    *)
C22_ExhaustedRetriesKeepError ==
  \A r \in Reqs :
    (req[r].pc = "failed" /\ req[r].retryCount = maxRetries
       /\ shouldRetry([status |-> req[r].status]))
      => req[r].err = (IF req[r].status = 503 THEN "HTTP 503"
                       ELSE "NO RESPONSE")

(* The fourth attempt of a request answered 503.                           *)
C22_Witness ==
  /\ req[1].pc = "failed"
  /\ req[1].retryCount = maxRetries
  /\ req[1].attempts = maxRetries + 1
  /\ req[1].status = 503
  /\ req[1].err = "HTTP 503"

(* C23: a request gives up on a transient failure only when its own retry  *)
(* counter is exhausted, and fails on a plain 401 only when it has used    *)
(* its own replay, whatever the other request or its other mechanism has   *)
(* consumed.                                                               *)
C23_RetryStatePerRequest ==
  \A r \in Reqs :
    /\ (req[r].pc = "failed" /\ shouldRetry([status |-> req[r].status]))
         => req[r].retryCount = maxRetries
    /\ (req[r].pc = "failed" /\ ~req[r].public /\ req[r].status = 401)
         => req[r].retry

(* One request has exhausted its retries; the other has used its replay    *)
(* and then all of its transient retries, and succeeded.                   *)
C23_Witness ==
  /\ req[1].pc = "failed"
  /\ req[1].retryCount = maxRetries
  /\ req[2].pc = "done"
  /\ req[2].replays = 1
  /\ req[2].retryCount = maxRetries
  /\ req[2].attempts = maxRetries + 2

(***************************************************************************)
(* Claims about the workspace heartbeat.                                   *)
(***************************************************************************)

(* C24: each failed heartbeat schedules its retry after a delay            *)
(* proportional to the retry counter, and once 'disconnected' has been     *)
(* emitted the interval is halted and the manager sends no further         *)
(* heartbeat.                                                              *)
C24_DisconnectedSendsNoMore ==
  /\ hbLastDelay \in {0} \cup
       { hbRetryInterval * k : k \in 1..(hbMaxRetries - 1) }
  /\ "disconnected" \in hbEvents =>
       /\ hbTimer = NoTimer
       /\ ~hbSentAfterDisconnect

(* C25: once stop() has returned, no heartbeat request is sent, whatever   *)
(* tick or retry was pending at the call.                                  *)
C25_NoHeartbeatAfterStop == ~hbSentAfterStop

(* C26: at most one heartbeat request is in flight at any time.            *)
C26_OneHeartbeatInFlight == hbInflight <= 1

(***************************************************************************)
(* Claims about the migration of legacy tokens and about the identity.     *)
(***************************************************************************)

(* C27: a retrieve that finds a legacy base64 entry in the secrets file    *)
(* returns its token and leaves the entry in the encrypted format, so      *)
(* that the next retrieve decrypts it directly and returns the same token. *)
C27_LegacyMigratedOnce ==
  (lastOp.op = "retrieve" /\ lastOp.path # "keychain"
     /\ lastOp.found.kind = "b64") =>
    /\ lastOp.result = lastOp.found.pt
    /\ tokensFile[lastOp.id] = encryptToken(lastOp.found.pt)
    /\ getTokenFallback(tokensFile, lastOp.id).path = "decrypted"
    /\ getTokenFallback(tokensFile, lastOp.id).ret = lastOp.found.pt

C29_LookupIsReadOnly ==
  idLast.op = "get" =>
    /\ ~idLast.created
    /\ (IF idLast.fn = "workspace" THEN workspaceFile ELSE deviceFile)
         = idLast.before
    /\ IF idLast.before.kind = "json" /\ idLast.before.id # Undefined
         THEN idLast.ret = idLast.before.id
         ELSE idLast.ret \in {Null, Undefined}

(* C30: a getOrCreateWorkspaceId that finds no identity returns, having    *)
(* created the identity under a non-empty name, and that name is the       *)
(* generated default when no name was given and the prompt timed out or    *)
(* was not shown (non-interactive or automatic).                           *)
C30_NamingTerminatesWithName ==
  (idLast.op = "getOrCreate" /\ idLast.fn = "workspace"
     /\ idLast.before.kind # "json") =>
    /\ ~idLast.threw
    /\ idLast.created
    /\ workspaceFile.kind = "json"
    /\ workspaceFile.name # <<>>
    /\ (~idLast.explicit /\ idLast.asked \in {"nobody", "timeout"}) =>
         workspaceFile.name = generateDefaultWorkspaceName

(***************************************************************************)
(* Claims about refresh, replay and rotation.                              *)
(***************************************************************************)

(* C34: the replay that follows a successful refresh after a 401 carries   *)
(* the access token that refresh obtained.  The request below has been     *)
(* replayed after its one refresh and not re-sent since, so its header is  *)
(* the header of the replay and accessToken is what the refresh cached.    *)
C34_ReplayCarriesNewToken ==
  \A r \in Reqs :
    (req[r].pc = "sent" /\ req[r].replays = 1 /\ req[r].refreshes = 1
       /\ req[r].retryCount = 0) =>
      req[r].header = accessToken

(* C38: after a start() the 'disconnected' signal is emitted at most once  *)
(* and the retry counter never exceeds maxRetries.                         *)
C38_DisconnectedOnce ==
  /\ hbDisconnects <= 1
  /\ hbRetryCount <= hbMaxRetries

(* C39: a start() that failed on its initial heartbeat leaves the manager  *)
(* idle: getStatus().connected is false (this.timer is null), no retry     *)
(* timer is pending and no heartbeat is in flight.                         *)
C39_FailedStartLeavesIdle ==
  (hbPhase = "startFailed" /\ hbRetryCount > 0) =>
    /\ hbTimer = NoTimer
    /\ hbRetryTimers = {}
    /\ hbInflight = 0

(* C37: what a retrieve returns from the secrets file is the secret a      *)
(* writer of this program stored in the entry it found, sealed on this     *)
(* host or in the legacy base64 form; a damaged or foreign entry is never  *)
(* returned, and never re-stored, as a credential.                         *)
C37_OnlyStoredSecretsReturned ==
  (lastOp.op = "retrieve" /\ lastOp.path # "keychain") =>
    /\ lastOp.result # NoSecret =>
         /\ lastOp.found.kind \in {"aead", "b64"}
         /\ lastOp.found.kind = "aead" =>
              lastOp.found.key = getEncryptionKey(ThisHost)
         /\ lastOp.result = lastOp.found.pt
    /\ lastOp.path = "legacy" => lastOp.found.kind = "b64"

(* C35: a 401 answer to the refresh exchange starts no further refresh:    *)
(* no refresh exchange is nested in another, and one 401 on a request      *)
(* causes one refresh request.                                             *)
C35_RefreshTerminates ==
  \A r \in Reqs : req[r].nest <= 1 /\ req[r].refreshes <= 1

(* C36: with a rotating server, no exchange is sent with a refresh token   *)
(* the server has already rotated out, and once no refresh is under way    *)
(* the vault holds the refresh token the server issued last.               *)
C36_RotationUnderInterleaving ==
  /\ ~exchStale
  /\ (\A r \in {1, 2} : exch[r].pc \in {"idle", "done", "failed"}) =>
       getToken(keychain, tokensFile, RotWsId, TRUE).ret = srvRt

(* Whether a command did the named step.                                   *)
Did(step) == \E i \in DOMAIN lastCmd.steps : lastCmd.steps[i] = step

(* C31: in the OAuth login a failure to open the browser is not fatal: a   *)
(* flow that got its device code goes on to poll for the token.            *)
C31_OpenFailureNotFatal ==
  (lastCmd.cmd = "oauth" /\ Did("open")) => Did("poll")

(* C33: whenever the device flow ends AUTHORIZED the login has an identity *)
(* and the vault returns the flow's refresh token under its id, success    *)
(* being reported after the store.                                         *)
C33_AuthorizedIsPersisted ==
  (lastCmd.cmd = "oauth" /\ Did("poll") /\ lastCmd.flow = "authorized") =>
    /\ lastCmd.ok
    /\ workspaceFile.kind = "json"
    /\ KeyOf(workspaceFile) = lastCmd.key
    /\ getToken(keychain, tokensFile, lastCmd.key, lastCmd.native).ret
         = lastCmd.rt
    /\ \E i \in DOMAIN lastCmd.steps :
         /\ lastCmd.steps[i] = "store"
         /\ \A j \in DOMAIN lastCmd.steps :
              lastCmd.steps[j] = "success" => i < j

(* C40: a login that fails because the device flow was denied, expired or  *)
(* errored, or because the personal access token was rejected, leaves the  *)
(* identity file and the vault as they were.                               *)
C40_FailedLoginChangesNothing ==
  (lastCmd.cmd \in {"oauth", "pat"} /\ lastCmd.why \in {"flow", "invalidToken"})
    => /\ workspaceFile = lastCmd.wsBefore
       /\ keychain = lastCmd.kcBefore
       /\ tokensFile = lastCmd.fileBefore

(* C32: a logout that found an identity leaves its credential in neither   *)
(* backend, the revocation coming before the removal, and its error being  *)
(* thrown after the removal when it failed.                                *)
C32_LogoutRemovesCredential ==
  (lastCmd.cmd = "logout" /\ lastCmd.why # "notLoggedIn") =>
    /\ keychain[lastCmd.key] = NoSecret
    /\ tokensFile[lastCmd.key] = NoBlob
    /\ lastCmd.steps[1] = "revoke" /\ lastCmd.steps[2] = "remove"
    /\ ~lastCmd.ok => lastCmd.steps = <<"revoke", "remove", "throw">>


====
